---- MODULE Spec2Model ----
(***************************************************************************)
(* Model of ppi_sources: the SourceAPIClient request layer (api.py) and    *)
(* the StringDBAPISource pipelines get_network / build_custom_network      *)
(* (stringdb/api.py).                                                      *)
(*                                                                         *)
(* Identifier tokens are sequences of characters, so that str.isnumeric,   *)
(* int() and str() are computed character by character.  The character     *)
(* "sup2" stands for U+00B2 (superscript two): numeric for str.isnumeric,  *)
(* not a decimal digit for int().                                          *)
(***************************************************************************)
EXTENDS Integers, Sequences, FiniteSets

VARIABLES
    op,                   \* entry point of this invocation
    pc,                   \* position of the invocation
    species_id,           \* net_desc['species_id'] (get_network)
    edges_array,          \* net_desc['edges'] (build_custom_network)
    provided_stringdb_col,\* filter column of the identifier request
    vert_ids,             \* filter values of the identifier request
    vert_data,            \* data frame decoded from the identifier request
    network,              \* the StringDBNetwork returned, or NoNetwork
    error,                \* the exception the invocation ended with, or NoExc
    sent,                 \* requests issued, per endpoint
    gpc,                  \* position inside SourceAPIClient.request
    endpoint,             \* endpoint of the request in progress
    policy,               \* raise_for_status: "off", "default", "custom"
    resp,                 \* the response object, or NoResp
    released,             \* whether the response has been released
    exc,                  \* exception in flight inside request, or NoExc
    raised,               \* exception that reached the caller of request
    log,                  \* diagnostics printed by request
    payload,              \* value decoded by the caller from the body
    cancelled,            \* whether the task was cancelled at an await
    stderr                \* diagnostics of build_custom_network

vars == <<op, pc, species_id, edges_array, provided_stringdb_col, vert_ids,
          vert_data, network, error, sent, gpc, endpoint, policy, resp,
          released, exc, raised, log, payload, cancelled, stderr>>

pipeVars == <<op, pc, species_id, edges_array, provided_stringdb_col,
              vert_ids, vert_data, network, error, stderr>>

gateVars == <<gpc, endpoint, policy, resp, released, exc, raised, log,
              payload, cancelled>>

----------------------------------------------------------------------------
(* Bounds and input domains *)

MaxEdges == 2

ErrorStatus == 400

Digits == <<"0", "1", "2", "3", "4", "5", "6", "7", "8", "9">>

Tokens ==
    { <<"1">>, <<"0", "1">>, <<"P">>, <<"Q">>, <<"sup2">>, <<"-", "1">> }

Species == {9606, 10090}

\* Rows the remote authority can answer with: protein_id is unique, the
\* external id "P" occurs for two species.
RowUniverse ==
    { [string_id |-> 1, species_id |-> 9606,  external_id |-> <<"P">>],
      [string_id |-> 2, species_id |-> 10090, external_id |-> <<"P">>],
      [string_id |-> 3, species_id |-> 9606,  external_id |-> <<"Q">>] }

RemoteIds == {1, 2, 3}

SeqsUpTo(S, n) == UNION { [1..k -> S] : k \in 1..n }

EdgeLists == SeqsUpTo(Tokens \X Tokens, MaxEdges)

RemoteEdgeLists == SeqsUpTo(RemoteIds \X RemoteIds, MaxEdges)

\* Decoded identifier payloads: a frame with rows, or an empty frame that
\* either has no columns (empty row list) or keeps its columns.
Frames ==
    { [cols |-> TRUE, rows |-> R] : R \in (SUBSET RowUniverse) \ {{}} }
    \cup { [cols |-> c, rows |-> {}] : c \in BOOLEAN }

Responses ==
    { [status |-> 200, reason |-> "OK",          text |-> "data"],
      [status |-> 400, reason |-> "Bad Request", text |-> "{\"error\":\"bad\"}"],
      [status |-> 400, reason |-> "Bad Request", text |-> "<html>"],
      [status |-> 404, reason |-> "Not Found",   text |-> "{\"error\":\"missing\"}"],
      [status |-> 404, reason |-> "Not Found",   text |-> "" ] }

NoResp == [status |-> 0, reason |-> "NoResp", text |-> ""]

NoBody == "None"

NoExc == [kind |-> "none", status |-> 0, message |-> "", body |-> NoBody]

NoNetwork == [name |-> <<>>]

NoFrame == [cols |-> FALSE, rows |-> {}]

----------------------------------------------------------------------------
(* Exceptions *)

Exc(kind) == [kind |-> kind, status |-> 0, message |-> "", body |-> NoBody]

\* class SourceAPIClientResponseError(ClientResponseError)
SourceAPIClientResponseError(r, json_body) ==
    [kind |-> "SourceAPIClientResponseError", status |-> r.status,
     message |-> r.reason, body |-> json_body]

\* isinstance(e, ClientResponseError)
IsClientResponseError(e) ==
    e.kind \in {"SourceAPIClientResponseError", "ClientResponseError",
                "ContentTypeError"}

\* resp.json(): the parsed payload, or a failure
JsonDecode(text) ==
    IF text = "{\"error\":\"bad\"}" THEN [ok |-> TRUE, value |-> "error=bad"]
    ELSE IF text = "{\"error\":\"missing\"}"
         THEN [ok |-> TRUE, value |-> "error=missing"]
    ELSE [ok |-> FALSE, value |-> NoBody]

----------------------------------------------------------------------------
(* SourceAPIClient.request, one action per step between suspension points *)

Endpoints == {"proteins", "edges", "name"}

\* State of the request layer when a request method is entered.
EnterRequest(ep, pol) ==
    /\ gpc' = "call"
    /\ endpoint' = ep
    /\ policy' = pol
    /\ resp' = NoResp
    /\ released' = FALSE
    /\ exc' = NoExc
    /\ raised' = NoExc
    /\ payload' = NoBody
    /\ UNCHANGED <<log, cancelled, sent>>

\* self.client.request(method, url, **kwargs): the request goes out.
GSend ==
    /\ gpc = "call"
    /\ gpc' = "awaiting"
    /\ sent' = [sent EXCEPT ![endpoint] = @ + 1]
    /\ UNCHANGED <<endpoint, policy, resp, released, exc, raised, log,
                   payload, cancelled>>
    /\ UNCHANGED pipeVars

\* async with ... as resp: the response headers arrive.
GRespond(r) ==
    /\ gpc = "awaiting"
    /\ resp' = r
    /\ released' = FALSE
    /\ gpc' = "status"
    /\ UNCHANGED <<endpoint, policy, exc, raised, log, payload, cancelled,
                   sent>>
    /\ UNCHANGED pipeVars

\* The task is cancelled before a response exists: CancelledError leaves
\* request through both except clauses, neither of which matches.
GCancelAwaiting ==
    /\ gpc = "awaiting"
    /\ cancelled' = TRUE
    /\ exc' = Exc("CancelledError")
    /\ gpc' = "handlers"
    /\ UNCHANGED <<endpoint, policy, resp, released, raised, log, payload,
                   sent>>
    /\ UNCHANGED pipeVars

\* if callable(raise_for_status): raise_for_status(resp)
\* The predicate accepts, raises a ClientResponseError (as
\* resp.raise_for_status() does), or raises something else.
PredicateOutcomes == {"accept", "ClientResponseError", "ValueError"}

GStatusCustom(outcome) ==
    /\ gpc = "status"
    /\ policy = "custom"
    /\ IF outcome = "accept"
       THEN /\ gpc' = "body"
            /\ exc' = exc
       ELSE /\ gpc' = "unwind"
            /\ exc' = IF outcome = "ClientResponseError"
                      THEN [kind |-> "ClientResponseError",
                            status |-> resp.status,
                            message |-> resp.reason, body |-> NoBody]
                      ELSE Exc(outcome)
    /\ UNCHANGED <<endpoint, policy, resp, released, raised, log, payload,
                   cancelled, sent>>
    /\ UNCHANGED pipeVars

\* if resp.status >= 400 (in _raise_for_status_with_desc)
IsErrorStatus(status) == status >= ErrorStatus

\* elif raise_for_status: await self._raise_for_status_with_desc(resp),
\* up to the await of resp.json()
GStatusDefault ==
    /\ gpc = "status"
    /\ policy = "default"
    /\ gpc' = IF IsErrorStatus(resp.status) THEN "json" ELSE "body"
    /\ UNCHANGED <<endpoint, policy, resp, released, exc, raised, log,
                   payload, cancelled, sent>>
    /\ UNCHANGED pipeVars

\* raise_for_status=False: straight to the yield
GStatusOff ==
    /\ gpc = "status"
    /\ policy = "off"
    /\ gpc' = "body"
    /\ UNCHANGED <<endpoint, policy, resp, released, exc, raised, log,
                   payload, cancelled, sent>>
    /\ UNCHANGED pipeVars

\* "except e:" names an unbound variable: when resp.json() raises, matching
\* the except clause evaluates e and raises NameError in its place; the
\* print, the release and the raise that follow are skipped.
ExceptE(decodeError) == Exc("NameError")

\* resp.release() before raise SourceAPIClientResponseError(...)
ReleaseBeforeRaise(rel) == TRUE

\* json_body = await resp.json() completes (or fails), then the rest of
\* _raise_for_status_with_desc
GJson ==
    /\ gpc = "json"
    /\ LET d == JsonDecode(resp.text) IN
       IF d.ok
       THEN /\ released' = ReleaseBeforeRaise(released)
            /\ exc' = SourceAPIClientResponseError(resp, d.value)
       ELSE /\ released' = released
            /\ exc' = ExceptE("JSONDecodeError")
    /\ gpc' = "unwind"
    /\ UNCHANGED <<endpoint, policy, resp, raised, log, payload, cancelled,
                   sent>>
    /\ UNCHANGED pipeVars

\* The task is cancelled while awaiting resp.json(): CancelledError is
\* raised inside the try block and meets the same except clause.
GCancelJson ==
    /\ gpc = "json"
    /\ cancelled' = TRUE
    /\ exc' = ExceptE("CancelledError")
    /\ gpc' = "unwind"
    /\ UNCHANGED <<endpoint, policy, resp, released, raised, log, payload,
                   sent>>
    /\ UNCHANGED pipeVars

\* Mutant: leaving the async with block leaves the response as it was.
ClientRequestExit_NoRelease(rel) == rel

\* Leaving "async with self.client.request(...) as resp" releases resp.
ClientRequestExit(rel) == TRUE

\* An exception leaves the async with block.
GUnwind ==
    /\ gpc = "unwind"
    /\ released' = ClientRequestExit(released)
    /\ gpc' = "handlers"
    /\ UNCHANGED <<endpoint, policy, resp, exc, raised, log, payload,
                   cancelled, sent>>
    /\ UNCHANGED pipeVars

\* except SourceAPIClientResponseError: print(...); raise
\* except ClientResponseError: print(...); raise
\* anything else propagates unlogged
Diagnostics(e) ==
    IF e.kind = "SourceAPIClientResponseError"
    THEN <<[tag |-> "Source API client HTTP error", status |-> e.status,
            message |-> e.message, body |-> e.body]>>
    ELSE IF IsClientResponseError(e)
    THEN <<[tag |-> "HTTP error", status |-> e.status,
            message |-> e.message, body |-> NoBody]>>
    ELSE <<>>

GHandle ==
    /\ gpc = "handlers"
    /\ log' = log \o Diagnostics(exc)
    /\ raised' = exc
    /\ gpc' = "raised"
    /\ UNCHANGED <<endpoint, policy, resp, released, exc, payload, cancelled,
                   sent>>
    /\ UNCHANGED pipeVars

\* What the caller's body decodes from a complete response.
Payloads(ep) ==
    IF ep = "proteins" THEN Frames
    ELSE IF ep = "edges" THEN RemoteEdgeLists \cup {<<>>}
    ELSE {"text"}

\* Exceptions the caller's body can raise while using the response:
\* unpackb on malformed bytes; resp.json()/a caller's own check raising a
\* ClientResponseError subclass.
BodyErrors(ep) ==
    IF ep = "name" THEN {"ContentTypeError", "CallerError"}
    ELSE {"DecodeError"}

\* yield resp; the body of the caller's async with completes
GBodyDone(p) ==
    /\ gpc = "body"
    /\ p \in Payloads(endpoint)
    /\ payload' = p
    /\ released' = ClientRequestExit(released)
    /\ gpc' = "returned"
    /\ UNCHANGED <<endpoint, policy, resp, exc, raised, log, cancelled,
                   sent>>
    /\ UNCHANGED pipeVars

\* the body raises: the exception is thrown into request at the yield
GBodyRaise(kind) ==
    /\ gpc = "body"
    /\ kind \in BodyErrors(endpoint)
    /\ exc' = IF kind = "ContentTypeError"
              THEN [kind |-> kind, status |-> resp.status,
                    message |-> "unexpected mimetype", body |-> NoBody]
              ELSE Exc(kind)
    /\ gpc' = "unwind"
    /\ UNCHANGED <<endpoint, policy, resp, released, raised, log, payload,
                   cancelled, sent>>
    /\ UNCHANGED pipeVars

\* the task is cancelled while the body awaits resp.read()/text()/json()
GCancelBody ==
    /\ gpc = "body"
    /\ cancelled' = TRUE
    /\ exc' = Exc("CancelledError")
    /\ gpc' = "unwind"
    /\ UNCHANGED <<endpoint, policy, resp, released, raised, log, payload,
                   sent>>
    /\ UNCHANGED pipeVars

----------------------------------------------------------------------------
(* Python and pandas primitives used by build_custom_network *)

IsDigit(c) == \E d \in 1..Len(Digits) : Digits[d] = c

DigitValue(c) == (CHOOSE d \in 1..Len(Digits) : Digits[d] = c) - 1

\* str.isnumeric(): non-empty and every character has a numeric value
isnumeric(tok) ==
    /\ Len(tok) > 0
    /\ \A i \in 1..Len(tok) : IsDigit(tok[i]) \/ tok[i] = "sup2"

RECURSIVE DecimalValue(_)
DecimalValue(ds) ==
    IF ds = <<>> THEN 0
    ELSE 10 * DecimalValue(SubSeq(ds, 1, Len(ds) - 1)) + DigitValue(ds[Len(ds)])

\* int(tok): an optional sign followed by decimal digits, else ValueError
ParseInt(tok) ==
    LET signed == Len(tok) > 0 /\ tok[1] \in {"-", "+"}
        ds     == IF signed THEN Tail(tok) ELSE tok
        ok     == Len(ds) > 0 /\ \A i \in 1..Len(ds) : IsDigit(ds[i])
    IN  IF ~ok THEN [ok |-> FALSE, value |-> 0]
        ELSE [ok |-> TRUE,
              value |-> IF signed /\ tok[1] = "-" THEN 0 - DecimalValue(ds)
                        ELSE DecimalValue(ds)]

RECURSIVE NatStr(_)
NatStr(n) ==
    IF n < 10 THEN <<Digits[n + 1]>>
    ELSE NatStr(n \div 10) \o <<Digits[(n % 10) + 1]>>

\* str(n) of an integer
Str(n) == IF n < 0 THEN <<"-">> \o NatStr(0 - n) ELSE NatStr(n)

RECURSIVE sorted(_)
sorted(S) ==
    IF S = {} THEN <<>>
    ELSE LET m == CHOOSE x \in S : \A y \in S : x <= y
         IN  <<m>> \o sorted(S \ {m})

\* np.unique(edges_array.flatten())
Flatten(edges) ==
    { edges[i][1] : i \in 1..Len(edges) } \cup { edges[i][2] : i \in 1..Len(edges) }

\* all(vert_id.isnumeric() for vert_id in vert_ids)
AllNumeric(verts) == \A v \in verts : isnumeric(v)

\* vert_data.set_index('string_id').external_id
IdMap(frame) == { <<r.string_id, r.external_id>> : r \in frame.rows }

\* known_ids = set(map(str, vert_data.string_id))
KnownIds(frame) == { Str(r.string_id) : r \in frame.rows }

\* edges_df.loc[node_id_a.isin(known_ids) & node_id_b.isin(known_ids)]
FilterKnown(edges, known_ids) ==
    LET Keep(e) == e[1] \in known_ids /\ e[2] \in known_ids
    IN  SelectSeq(edges, Keep)

\* Series.map(mapper) of one cell: the mapped value, or NaN
MapCell(frame, x) ==
    IF \E r \in frame.rows : r.external_id = x
    THEN [isna |-> FALSE,
          value |-> (CHOOSE r \in frame.rows : r.external_id = x).string_id]
    ELSE [isna |-> TRUE, value |-> 0]

\* Mutant: only the first column decides whether a row is dropped.
DropNa_FirstColumn(row) == ~row[1].isna

\* DataFrame.dropna(): drop the rows holding a NaN
DropNa(row) == ~row[1].isna /\ ~row[2].isna

\* edges_df.apply(lambda col: col.map(ext_id_to_string_id)).dropna()
MapExternal(edges, frame) ==
    LET mapped == [i \in 1..Len(edges) |->
                      <<MapCell(frame, edges[i][1]), MapCell(frame, edges[i][2])>>]
        kept   == SelectSeq(mapped, DropNa)
    IN  [i \in 1..Len(kept) |-> <<kept[i][1].value, kept[i][2].value>>]

\* Series.map with a mapper whose index (external_id) has duplicates raises
\* InvalidIndexError: Index.get_indexer needs a unique index.
UniqueIndex(frame) ==
    \A r1, r2 \in frame.rows : r1.external_id = r2.external_id => r1 = r2

----------------------------------------------------------------------------
(* StringDBAPISource.get_network and build_custom_network *)

Pipelines == {"get_network", "build_custom_network"}

\* provided_stringdb_col: 'protein_id' if every token is numeric,
\* 'protein_external_id' otherwise
InferScheme(verts) ==
    IF AllNumeric(verts) THEN "protein_id" ELSE "protein_external_id"

\* build_custom_network up to the await of the identifier request
CallBuildCustomNetwork(edges) ==
    /\ pc = "start"
    /\ op' = "build_custom_network"
    /\ edges_array' = edges
    /\ LET verts == Flatten(edges)
           col   == InferScheme(verts)
       IN  /\ provided_stringdb_col' = col
           /\ IF col = "protein_id" /\ \E v \in verts : ~ParseInt(v).ok
              THEN \* [int(vert_id) for vert_id in vert_ids] raises ValueError
                   /\ vert_ids' = verts
                   /\ pc' = "failed"
                   /\ error' = Exc("ValueError")
                   /\ UNCHANGED <<gateVars, sent>>
              ELSE /\ vert_ids' = IF col = "protein_id"
                                  THEN { ParseInt(v).value : v \in verts }
                                  ELSE verts
                   /\ pc' = "ids_req"
                   /\ error' = error
                   /\ EnterRequest("proteins", "default")
    /\ UNCHANGED <<species_id, vert_data, network, stderr>>

\* edges_df of the scheme's branch
ReconcileEdges(col, edges, frame) ==
    IF col = "protein_id"
    THEN [kind |-> "str", rows |-> FilterKnown(edges, KnownIds(frame))]
    ELSE [kind |-> "int", rows |-> MapExternal(edges, frame)]

\* the dropped-edges diagnostic
DroppedDiagnostic(old_nrows, new_nrows) ==
    IF old_nrows # new_nrows
    THEN <<[dropped |-> old_nrows - new_nrows, out_of |-> old_nrows]>>
    ELSE <<>>

\* build_custom_network after the identifier request returned: no further
\* suspension point up to the return
BuildCustomNetwork ==
    /\ op = "build_custom_network"
    /\ pc = "ids_req"
    /\ gpc = "returned"
    /\ vert_data' = payload
    /\ IF ~payload.cols
       THEN \* vert_data.species_id on a frame without columns
            /\ error' = Exc("AttributeError")
            /\ pc' = "failed"
            /\ UNCHANGED <<network, stderr>>
       ELSE IF provided_stringdb_col = "protein_external_id"
               /\ ~UniqueIndex(payload)
       THEN /\ error' = Exc("InvalidIndexError")
            /\ pc' = "failed"
            /\ UNCHANGED <<network, stderr>>
       ELSE LET species_ids == { r.species_id : r \in payload.rows }
                edges_df == ReconcileEdges(provided_stringdb_col, edges_array,
                                           payload)
            IN  /\ stderr' = stderr \o DroppedDiagnostic(Len(edges_array),
                                                         Len(edges_df.rows))
                /\ network' = [name |-> <<"stringdb_custom">> \o sorted(species_ids),
                               species_ids |-> species_ids,
                               id_map |-> IdMap(payload),
                               edges |-> edges_df]
                /\ pc' = "done"
                /\ error' = error
    /\ UNCHANGED <<op, species_id, edges_array, provided_stringdb_col, vert_ids>>
    /\ UNCHANGED <<gateVars, sent>>

\* get_network up to the await of the identifier request
CallGetNetwork(sp) ==
    /\ pc = "start"
    /\ op' = "get_network"
    /\ species_id' = sp
    /\ provided_stringdb_col' = "species_id"
    /\ vert_ids' = {sp}
    /\ pc' = "ids_req"
    /\ EnterRequest("proteins", "default")
    /\ UNCHANGED <<edges_array, vert_data, network, error, stderr>>

\* get_network between the two requests
RequestEdges ==
    /\ op = "get_network"
    /\ pc = "ids_req"
    /\ gpc = "returned"
    /\ vert_data' = payload
    /\ pc' = "edges_req"
    /\ EnterRequest("edges", "default")
    /\ UNCHANGED <<op, species_id, edges_array, provided_stringdb_col,
                   vert_ids, network, error, stderr>>

\* get_network after the edge request returned
ComposeNetwork ==
    /\ op = "get_network"
    /\ pc = "edges_req"
    /\ gpc = "returned"
    /\ IF ~vert_data.cols
       THEN \* ext_ids.set_index('string_id') on a frame without columns
            /\ error' = Exc("KeyError")
            /\ pc' = "failed"
            /\ network' = network
       ELSE /\ network' = [name |-> <<"stringdb", species_id>>,
                           species_ids |-> {species_id},
                           id_map |-> IdMap(vert_data),
                           edges |-> [kind |-> "int", rows |-> payload]]
            /\ pc' = "done"
            /\ error' = error
    /\ UNCHANGED <<op, species_id, edges_array, provided_stringdb_col,
                   vert_ids, vert_data, stderr>>
    /\ UNCHANGED <<gateVars, sent>>

\* A caller using request directly (as get_name does), with any status policy
Policies == {"off", "default", "custom"}

CallRequest(pol) ==
    /\ pc = "start"
    /\ op' = "request"
    /\ pc' = "req"
    /\ EnterRequest("name", pol)
    /\ UNCHANGED <<species_id, edges_array, provided_stringdb_col, vert_ids,
                   vert_data, network, error, stderr>>

RequestReturned ==
    /\ op = "request"
    /\ pc = "req"
    /\ gpc = "returned"
    /\ pc' = "done"
    /\ UNCHANGED <<op, species_id, edges_array, provided_stringdb_col,
                   vert_ids, vert_data, network, error, stderr>>
    /\ UNCHANGED <<gateVars, sent>>

\* Mutant: get_network swallows a failed identifier request and goes on to
\* the edge request.
Propagate_Swallow ==
    /\ pc \in {"ids_req", "edges_req", "req"}
    /\ gpc = "raised"
    /\ IF op = "get_network" /\ pc = "ids_req"
       THEN /\ pc' = "edges_req"
            /\ error' = error
            /\ EnterRequest("edges", "default")
       ELSE /\ error' = raised
            /\ pc' = "failed"
            /\ UNCHANGED <<gateVars, sent>>
    /\ UNCHANGED <<op, species_id, edges_array, provided_stringdb_col,
                   vert_ids, vert_data, network, stderr>>

\* An exception raised by a request is not caught by any entry point.
Propagate ==
    /\ pc \in {"ids_req", "edges_req", "req"}
    /\ gpc = "raised"
    /\ error' = raised
    /\ pc' = "failed"
    /\ UNCHANGED <<op, species_id, edges_array, provided_stringdb_col,
                   vert_ids, vert_data, network, stderr>>
    /\ UNCHANGED <<gateVars, sent>>

----------------------------------------------------------------------------

Init ==
    /\ op = "none"
    /\ pc = "start"
    /\ species_id = 0
    /\ edges_array = <<>>
    /\ provided_stringdb_col = "none"
    /\ vert_ids = {}
    /\ vert_data = NoFrame
    /\ network = NoNetwork
    /\ error = NoExc
    /\ stderr = <<>>
    /\ sent = [e \in Endpoints |-> 0]
    /\ gpc = "idle"
    /\ endpoint = "none"
    /\ policy = "off"
    /\ resp = NoResp
    /\ released = FALSE
    /\ exc = NoExc
    /\ raised = NoExc
    /\ log = <<>>
    /\ payload = NoBody
    /\ cancelled = FALSE

Next ==
    \/ pc = "start" /\ \E edges \in EdgeLists : CallBuildCustomNetwork(edges)
    \/ pc = "start" /\ \E sp \in Species : CallGetNetwork(sp)
    \/ pc = "start" /\ \E pol \in Policies : CallRequest(pol)
    \/ GSend
    \/ \E r \in Responses : GRespond(r)
    \/ GCancelAwaiting
    \/ \E o \in PredicateOutcomes : GStatusCustom(o)
    \/ GStatusDefault
    \/ GStatusOff
    \/ GJson
    \/ GCancelJson
    \/ GUnwind
    \/ GHandle
    \/ gpc = "body" /\ \E p \in Payloads(endpoint) : GBodyDone(p)
    \/ gpc = "body" /\ \E k \in BodyErrors(endpoint) : GBodyRaise(k)
    \/ GCancelBody
    \/ BuildCustomNetwork
    \/ RequestEdges
    \/ ComposeNetwork
    \/ RequestReturned
    \/ Propagate

Spec == Init /\ [][Next]_vars

----------------------------------------------------------------------------
(* Properties *)

\* C1: a response with status >= 400 handled under the default status
\* policy makes the request fail with a SourceAPIClientResponseError that
\* carries the response's status and reason; its body is the parsed JSON
\* payload when the payload decodes and None when it does not.
C1_RequestErrorOnErrorStatus ==
    (gpc = "raised" /\ policy = "default" /\ ~cancelled
        /\ IsErrorStatus(resp.status))
    => /\ raised.kind = "SourceAPIClientResponseError"
       /\ raised.status = resp.status
       /\ raised.message = resp.reason
       /\ raised.body = JsonDecode(resp.text).value

\* C2: whenever request has exited, normally or with an exception that
\* reached its caller, a response that was obtained has been released.
C2_ReleasedOnEveryExit ==
    (gpc \in {"raised", "returned"} /\ resp # NoResp) => released

C2_Witness ==
    /\ gpc = "raised"
    /\ resp # NoResp
    /\ raised.kind \in {"NameError", "CancelledError", "ValueError"}
    /\ released

\* C3: build_custom_network filters on protein_id with the tokens cast to
\* integers, the cast not failing, when every token parses as an integer,
\* and on protein_external_id with the tokens unchanged when some token
\* does not parse as an integer.
C3_SchemeInference ==
    op = "build_custom_network"
    => LET verts == Flatten(edges_array) IN
       /\ (\A v \in verts : ParseInt(v).ok)
            => /\ error.kind # "ValueError"
               /\ provided_stringdb_col = "protein_id"
               /\ vert_ids = { ParseInt(v).value : v \in verts }
       /\ (\E v \in verts : ~ParseInt(v).ok)
            => /\ provided_stringdb_col = "protein_external_id"
               /\ vert_ids = verts

\* C4: under the canonical scheme the edge table of the returned network
\* holds exactly the input edges whose two endpoints denote protein ids of
\* the identifier map, in input order.
C4_CanonicalExact ==
    (op = "build_custom_network" /\ pc = "done"
        /\ provided_stringdb_col = "protein_id")
    => LET ids == { r.string_id : r \in vert_data.rows }
           Known(e) == ParseInt(e[1]).value \in ids /\ ParseInt(e[2]).value \in ids
       IN  network.edges.rows = SelectSeq(edges_array, Known)

\* C5: under the external scheme the edge table of the returned network is
\* the input edges whose two endpoints both have a mapping, in input order,
\* each endpoint replaced by the canonical id it maps to; the diagnostic
\* counts the other rows as dropped.
C5_ExternalRewrite ==
    (op = "build_custom_network" /\ pc = "done"
        /\ provided_stringdb_col = "protein_external_id")
    => LET HasMapping(x) == \E r \in vert_data.rows : r.external_id = x
           Canon(x) == (CHOOSE r \in vert_data.rows : r.external_id = x).string_id
           keep == { i \in 1..Len(edges_array) :
                       HasMapping(edges_array[i][1]) /\ HasMapping(edges_array[i][2]) }
           out  == network.edges.rows
           n    == Len(edges_array)
       IN  /\ network.edges.kind = "int"
           /\ Len(out) = Cardinality(keep)
           /\ \E f \in [1..Len(out) -> keep] :
                /\ \A j, k \in 1..Len(out) : j < k => f[j] < f[k]
                /\ \A k \in 1..Len(out) :
                     out[k] = <<Canon(edges_array[f[k]][1]),
                                Canon(edges_array[f[k]][2])>>
           /\ \A k \in 1..Len(out) :
                {out[k][1], out[k][2]} \subseteq { r.string_id : r \in vert_data.rows }
           /\ stderr = IF Len(out) = n THEN <<>>
                       ELSE <<[dropped |-> n - Len(out), out_of |-> n]>>

C5_Witness ==
    /\ op = "build_custom_network"
    /\ pc = "done"
    /\ provided_stringdb_col = "protein_external_id"
    /\ Len(edges_array) = 2
    /\ Len(network.edges.rows) = 1
    /\ edges_array[1][1] # edges_array[1][2]
    /\ network.edges.rows[1][1] # network.edges.rows[1][2]

\* C6: when the identifier request of build_custom_network, made for a
\* non-empty identifier set, is answered with zero rows, the call fails
\* with ResolutionError and returns no network.
C6_ResolutionErrorOnNoRows ==
    (op = "build_custom_network" /\ pc \in {"done", "failed"}
        /\ gpc = "returned" /\ vert_data.rows = {}
        /\ Flatten(edges_array) # {})
    => /\ error.kind = "ResolutionError"
       /\ network = NoNetwork

\* The canonical id an edge-table cell denotes.
CellId(kind, cell) == IF kind = "str" THEN ParseInt(cell).value ELSE cell

\* C7: every endpoint of the edge table of a returned network is a key of
\* that network's identifier map.
C7_EdgesWithinIdentifierMap ==
    network # NoNetwork
    => LET keys == { m[1] : m \in network.id_map }
           rows == network.edges.rows
       IN  \A i \in 1..Len(rows) :
             /\ CellId(network.edges.kind, rows[i][1]) \in keys
             /\ CellId(network.edges.kind, rows[i][2]) \in keys

\* C8: once the identifier request of build_custom_network has returned a
\* non-empty identifier table, the call completes with a network: edge
\* validation only drops rows.
C8_EdgeValidationTotal ==
    (op = "build_custom_network" /\ pc \in {"done", "failed"}
        /\ gpc = "returned" /\ vert_data.rows # {})
    => /\ pc = "done"
       /\ network # NoNetwork

\* C9: when an error raised inside request reaches the caller, a
\* diagnostic with the response's status and reason and the error's
\* structured body has been printed.
C9_DiagnosticBeforeError ==
    (gpc = "raised" /\ resp # NoResp /\ ~cancelled)
    => \E i \in 1..Len(log) :
         /\ log[i].status = resp.status
         /\ log[i].message = resp.reason
         /\ log[i].body = raised.body

\* C10: each request of a pipeline is issued at most once; once a request
\* has failed the invocation sends nothing more, returns no network and can
\* only end with the error the request raised; a network exists only after
\* every request of the pipeline has returned.
C10_NoRetryErrorPropagates ==
    /\ [](\A e \in Endpoints : sent[e] <= 1)
    /\ [](network # NoNetwork
            => /\ gpc = "returned"
               /\ sent["proteins"] = 1
               /\ (op = "get_network" => sent["edges"] = 1))
    /\ [][ (op \in Pipelines /\ gpc = "raised")
             => /\ sent' = sent
                /\ network' = NoNetwork
                /\ gpc' = "raised"
                /\ pc' # pc => (pc' = "failed" /\ error' = raised) ]_vars

C10_Witness ==
    /\ op = "get_network"
    /\ pc = "failed"
    /\ endpoint = "proteins"
    /\ error.kind \in {"SourceAPIClientResponseError", "DecodeError"}
    /\ error = raised
    /\ sent["edges"] = 0
    /\ network = NoNetwork

====
